---- MODULE Spec2Model ----
(***************************************************************************)
(* Model of modules/engine_binary.py: train_step, test_step and train.     *)
(*                                                                         *)
(* Spec      : one call of train(), each train_step/test_step/writer call  *)
(*             one step that either returns or raises.                     *)
(* FairSpec  : Spec with weak fairness of the next-state relation (the     *)
(*             single thread always executes its next statement).          *)
(* SpecStep  : one call of train_step or test_step, one step per batch of  *)
(*             the dataloader.                                             *)
(*                                                                         *)
(* Floats are modelled by exact numbers: losses by naturals (with Inf for  *)
(* float('inf')), means by rationals [n, d].  NaN is not modelled.  The    *)
(* metrics the control flow never reads (train_loss, the accuracies,       *)
(* recalls and F1 scores in train()) are the opaque values <<name, epoch>>. *)
(***************************************************************************)
EXTENDS Integers, Sequences, FiniteSets

\* ---------------------------------------------------------------- bounds
MaxEpochs == 4
MaxPatience == 2
MaxLoss == 2
MaxBatches == 2
MaxBatchSize == 2
MaxBatchLoss == 1

\* float('inf'): larger than every finite loss
Inf == MaxLoss + 1
Loss == 0..Inf

VARIABLES
    \* ---- train(): arguments
    epochs, patience, writer, example_input,
    \* ---- train(): locals and control
    pc, it, epoch, cur, results, best_loss, patience_counter, returned, exc,
    \* ---- the world train() acts on
    stdout, sink, params, mode,
    \* ---- train_step / test_step: argument, locals and control
    kind, dataloader, spc, batch, sum_loss, sum_acc, collected, ret

argVars == <<epochs, patience, writer, example_input>>
loopVars == <<pc, it, epoch, cur, results, best_loss, patience_counter, returned, exc>>
worldVars == <<stdout, sink, params, mode>>
stepVars == <<kind, dataloader, spc, batch, sum_loss, sum_acc, collected, ret>>
vars == <<argVars, loopVars, worldVars, stepVars>>

\* ------------------------------------------------------------ train()
Series == {"train_loss", "train_acc", "train_recall", "train_f1",
           "test_loss", "test_acc", "test_recall", "test_f1"}

\* nothing returned (yet); a returned value v is <<v>>
NoResult == << >>

\* results = {"train_loss": [], ..., "test_f1": []}
EmptyResults == [s \in Series |-> << >>]

\* the value of metric `name` that the step of epoch e returned
Val(name, e) == <<name, e>>

\* the 4-tuple train_step returns in epoch e
TrainMetrics(e) ==
    [train_loss |-> Val("train_loss", e), train_acc |-> Val("train_acc", e),
     train_recall |-> Val("train_recall", e), train_f1 |-> Val("train_f1", e)]

\* the 4-tuple test_step returns in epoch e, its loss being l
TestMetrics(e, l) ==
    [test_loss |-> l, test_acc |-> Val("test_acc", e),
     test_recall |-> Val("test_recall", e), test_f1 |-> Val("test_f1", e)]

\* the eight metric locals of train() before their first assignment
Unbound == [s \in Series |-> IF s = "test_loss" THEN -1 ELSE Val(s, -1)]

\* the locals `old` after the tuple assignment of `new`
Assign(old, new) == [s \in Series |-> IF s \in DOMAIN new THEN new[s] ELSE old[s]]

Init ==
    /\ epochs \in 0..MaxEpochs
    /\ patience \in 0..MaxPatience
    /\ writer \in BOOLEAN
    /\ example_input \in BOOLEAN
    /\ pc = "for"
    /\ it = 0
    /\ epoch = -1
    /\ cur = Unbound
    /\ results = EmptyResults
    /\ best_loss = Inf
    /\ patience_counter = 0
    /\ returned = NoResult
    /\ exc = "none"
    /\ stdout = << >>
    /\ sink = << >>
    /\ params = 0
    /\ mode = "train"
    /\ kind = "none"
    /\ dataloader = << >>
    /\ spc = "idle"
    /\ batch = 0
    /\ sum_loss = [n |-> 0, d |-> 1]
    /\ sum_acc = [n |-> 0, d |-> 1]
    /\ collected = 0
    /\ ret = NoResult

\* variant: the exception is caught and the entries so far are returned
RaiseReturnsPartial(who) ==
    /\ pc' = "aborted"
    /\ exc' = who
    /\ returned' = <<results>>

\* an exception leaves train(): nothing is caught, nothing is returned
Raise(who) ==
    /\ pc' = "aborted"
    /\ exc' = who
    /\ returned' = NoResult

\* variant: one epoch too many
RangeHasNextInclusive(i, n) == i <= n

\* range(epochs) has a next value after i values
RangeHasNext(i, n) == i < n

\* for epoch in tqdm(range(epochs)):
ForEpoch ==
    /\ pc = "for"
    /\ \/ /\ RangeHasNext(it, epochs)
          /\ epoch' = it
          /\ it' = it + 1
          /\ pc' = "train_step"
       \/ /\ ~RangeHasNext(it, epochs)
          /\ pc' = "return"
          /\ UNCHANGED <<it, epoch>>
    /\ UNCHANGED <<cur, results, best_loss, patience_counter, returned, exc>>
    /\ UNCHANGED <<argVars, worldVars, stepVars>>

\* the parameters after train_step's optimizer.step() calls (a new version of
\* them: at least one batch with a nonzero gradient)
Trained(p) == p + 1

\* train_loss, train_acc, train_recall, train_f1 = train_step(...)
CallTrainStep ==
    /\ pc = "train_step"
    /\ \/ /\ cur' = Assign(cur, TrainMetrics(epoch))
          /\ mode' = "train"
          /\ params' = Trained(params)
          /\ pc' = "test_step"
          /\ UNCHANGED <<returned, exc>>
       \/ /\ Raise("train_step")
          /\ mode' = "train"
          /\ params' \in {params, Trained(params)}
          /\ UNCHANGED cur
    /\ UNCHANGED <<it, epoch, results, best_loss, patience_counter>>
    /\ UNCHANGED <<argVars, stdout, sink, stepVars>>

\* variant: evaluation takes an optimizer step
EvaluatedUpdates(p) == p + 1

\* the parameters after test_step: no optimizer, torch.inference_mode()
Evaluated(p) == p

\* test_loss, test_acc, test_recall, test_f1 = test_step(...)
CallTestStep ==
    /\ pc = "test_step"
    /\ mode' = "eval"
    /\ params' = Evaluated(params)
    /\ \/ /\ \E l \in Loss : cur' = Assign(cur, TestMetrics(epoch, l))
          /\ pc' = "print"
          /\ UNCHANGED <<returned, exc>>
       \/ /\ Raise("test_step")
          /\ UNCHANGED cur
    /\ UNCHANGED <<it, epoch, results, best_loss, patience_counter>>
    /\ UNCHANGED <<argVars, stdout, sink, stepVars>>

\* print(f"Epoch: {epoch+1} | ...")
PrintEpoch ==
    /\ pc = "print"
    /\ stdout' = Append(stdout, <<"Epoch", epoch + 1>>)
    /\ pc' = "append"
    /\ UNCHANGED <<it, epoch, cur, results, best_loss, patience_counter, returned, exc>>
    /\ UNCHANGED <<argVars, sink, params, mode, stepVars>>

\* variant: the last append is missing
AppendedButF1(r, m) ==
    [s \in Series |-> IF s = "test_f1" THEN r[s] ELSE Append(r[s], m[s])]

\* results[...].append(...), eight times
Appended(r, m) == [s \in Series |-> Append(r[s], m[s])]

AppendResults ==
    /\ pc = "append"
    /\ results' = Appended(results, cur)
    /\ pc' = "early"
    /\ UNCHANGED <<it, epoch, cur, best_loss, patience_counter, returned, exc>>
    /\ UNCHANGED <<argVars, worldVars, stepVars>>

\* if test_loss < best_loss:
Improves(l, best) == l < best

\* best_loss after the epoch's update
NextBest(l, best) == IF Improves(l, best) THEN l ELSE best

\* variant: the counter is never reset
NextCounterNoReset(l, best, counter) == IF Improves(l, best) THEN counter ELSE counter + 1

\* patience_counter after the epoch's update
NextCounter(l, best, counter) == IF Improves(l, best) THEN 0 ELSE counter + 1

\* variant: one stale epoch too many
ExhaustedStrict(counter, pat) == counter > pat

\* variant: one stale epoch too few
ExhaustedEarly(counter, pat) == counter + 1 >= pat

\* if patience_counter >= patience:
Exhausted(counter, pat) == counter >= pat

\* variant: the message is printed and the epoch goes on to the logging step
BreakFallsThrough == "log"

\* break: where control goes from the early-stopping branch
Break == "return"

\* the early stopping logic: the update, then the test that breaks the loop
EarlyStopping ==
    /\ pc = "early"
    /\ best_loss' = NextBest(cur.test_loss, best_loss)
    /\ patience_counter' = NextCounter(cur.test_loss, best_loss, patience_counter)
    /\ \/ /\ Exhausted(patience_counter', patience)
          /\ stdout' = Append(stdout, <<"Early stopping triggered", epoch + 1>>)
          /\ pc' = Break
       \/ /\ ~Exhausted(patience_counter', patience)
          /\ pc' = "log"
          /\ UNCHANGED stdout
    /\ UNCHANGED <<it, epoch, cur, results, returned, exc>>
    /\ UNCHANGED <<argVars, sink, params, mode, stepVars>>

\* if writer and example_input is not None:
ShouldLog(w, x) == w /\ x

LogGuard ==
    /\ pc = "log"
    /\ \/ /\ ShouldLog(writer, example_input)
          /\ pc' = "add_loss"
       \/ /\ ~ShouldLog(writer, example_input)
          /\ pc' = "for"
    /\ UNCHANGED <<it, epoch, cur, results, best_loss, patience_counter, returned, exc>>
    /\ UNCHANGED <<argVars, worldVars, stepVars>>

\* writer.add_scalars(main_tag=tag, tag_scalar_dict={...}, global_step=epoch)
Scalars(tag, train, test, step) == <<"add_scalars", tag, train, test, step>>

\* the model-graph record of one writer.add_graph call
GraphRecords == << <<"add_graph">> >>

\* one call on the writer: it appends what it emits, or raises
WriterCall(at, emitted, next) ==
    /\ pc = at
    /\ \/ /\ sink' = sink \o emitted
          /\ pc' = next
          /\ UNCHANGED <<returned, exc>>
       \/ /\ Raise("writer")
          /\ UNCHANGED sink
    /\ UNCHANGED <<it, epoch, cur, results, best_loss, patience_counter>>
    /\ UNCHANGED <<argVars, stdout, params, mode, stepVars>>

AddLoss ==
    WriterCall("add_loss",
               << Scalars("Loss", cur.train_loss, cur.test_loss, epoch) >>, "add_acc")

AddAccuracy ==
    WriterCall("add_acc",
               << Scalars("Accuracy", cur.train_acc, cur.test_acc, epoch) >>, "add_recall")

AddRecall ==
    WriterCall("add_recall",
               << Scalars("Recall", cur.train_recall, cur.test_recall, epoch) >>, "add_f1")

AddF1 ==
    WriterCall("add_f1",
               << Scalars("F1-Score", cur.train_f1, cur.test_f1, epoch) >>, "add_graph")

\* writer.add_graph(model=model, input_to_model=example_input)
AddGraph == WriterCall("add_graph", GraphRecords, "close")

\* writer.close()
CloseWriter == WriterCall("close", << <<"close">> >>, "for")

\* what train() hands back
Returned(r) == <<r>>

\* return results
Return ==
    /\ pc = "return"
    /\ returned' = Returned(results)
    /\ pc' = "done"
    /\ UNCHANGED <<it, epoch, cur, results, best_loss, patience_counter, exc>>
    /\ UNCHANGED <<argVars, worldVars, stepVars>>

Next ==
    \/ ForEpoch
    \/ CallTrainStep
    \/ CallTestStep
    \/ PrintEpoch
    \/ AppendResults
    \/ EarlyStopping
    \/ LogGuard
    \/ AddLoss
    \/ AddAccuracy
    \/ AddRecall
    \/ AddF1
    \/ AddGraph
    \/ CloseWriter
    \/ Return

Spec == Init /\ [][Next]_vars

\* the interpreter runs the single thread's next statement
FairSpec == Spec /\ WF_vars(Next)

\* ------------------------------------------- train_step and test_step
\* A batch, as the step sees it: the value loss_fn gives for it, and the
\* elementwise comparison (y_pred_class == y.unsqueeze(1)), one entry per example.
SeqsUpTo(S, lo, hi) == UNION {[1..k -> S] : k \in lo..hi}

Batches == [loss : 0..MaxBatchLoss, eq : SeqsUpTo(BOOLEAN, 1, MaxBatchSize)]

Dataloaders == SeqsUpTo(Batches, 0, MaxBatches)

\* exact fractions [n, d], d > 0
Zero == [n |-> 0, d |-> 1]
Frac(a, b) == [n |-> a, d |-> b]
RAdd(x, y) == [n |-> x.n * y.d + y.n * x.d, d |-> x.d * y.d]
RDiv(x, k) == [n |-> x.n, d |-> x.d * k]
REq(x, y) == x.n * y.d = y.n * x.d

\* one call of train_step or of test_step on a dataloader
InitStep ==
    /\ epochs = 0
    /\ patience = 0
    /\ writer = FALSE
    /\ example_input = FALSE
    /\ pc = "none"
    /\ it = 0
    /\ epoch = -1
    /\ cur = Unbound
    /\ results = EmptyResults
    /\ best_loss = Inf
    /\ patience_counter = 0
    /\ returned = NoResult
    /\ exc = "none"
    /\ stdout = << >>
    /\ sink = << >>
    /\ params = 0
    /\ mode \in {"train", "eval"}
    /\ kind \in {"train_step", "test_step"}
    /\ dataloader \in Dataloaders
    /\ spc = "start"
    /\ batch = 0
    /\ sum_loss = Zero
    /\ sum_acc = Zero
    /\ collected = 0
    /\ ret = NoResult

\* model.train() / model.eval(), then the metrics set to 0
StepBegin(which, m) ==
    /\ kind = which
    /\ spc = "start"
    /\ mode' = m
    /\ sum_loss' = Zero
    /\ sum_acc' = Zero
    /\ collected' = 0
    /\ batch' = 0
    /\ spc' = "loop"
    /\ UNCHANGED <<kind, dataloader, ret, params>>
    /\ UNCHANGED <<argVars, loopVars, stdout, sink>>

\* (y_pred_class == y.unsqueeze(1)).sum().item() / len(y_pred)
BatchAccuracy(b) == Frac(Cardinality({i \in 1..Len(b.eq) : b.eq[i]}), Len(b.eq))

\* optimizer.zero_grad(); loss.backward(); optimizer.step()
OptimizerStep(p) == p + 1

\* the body of `for batch, (X, y) in enumerate(dataloader)`
StepBatch(which, p) ==
    /\ kind = which
    /\ spc = "loop"
    /\ batch < Len(dataloader)
    /\ LET b == dataloader[batch + 1] IN
         /\ sum_loss' = RAdd(sum_loss, Frac(b.loss, 1))
         /\ sum_acc' = RAdd(sum_acc, BatchAccuracy(b))
         /\ collected' = collected + Len(b.eq)
    /\ params' = p
    /\ batch' = batch + 1
    /\ UNCHANGED <<kind, dataloader, spc, ret, mode>>
    /\ UNCHANGED <<argVars, loopVars, stdout, sink>>

\* variant: the mean per example
DivisorExamples(nbatches, nexamples) == nexamples

\* what the sums are divided by: len(dataloader)
Divisor(nbatches, nexamples) == nbatches

\* after the loop: recall and F1 from sklearn, the two divisions, the return
StepEnd(which) ==
    /\ kind = which
    /\ spc = "loop"
    /\ batch >= Len(dataloader)
    /\ LET k == Divisor(Len(dataloader), collected) IN
         \/ /\ k = 0
            /\ spc' = "raised"
            /\ UNCHANGED ret
         \/ /\ k # 0
            /\ ret' = << [loss |-> RDiv(sum_loss, k), acc |-> RDiv(sum_acc, k),
                          recall |-> "weighted_recall", f1 |-> "weighted_f1"] >>
            /\ spc' = "returned"
    /\ UNCHANGED <<kind, dataloader, batch, sum_loss, sum_acc, collected, params, mode>>
    /\ UNCHANGED <<argVars, loopVars, stdout, sink>>

TrainStepBegin == StepBegin("train_step", "train")
TrainStepBatch == StepBatch("train_step", OptimizerStep(params))
TrainStepEnd == StepEnd("train_step")

TestStepBegin == StepBegin("test_step", "eval")
TestStepBatch == StepBatch("test_step", params)
TestStepEnd == StepEnd("test_step")

NextStep ==
    \/ TrainStepBegin
    \/ TrainStepBatch
    \/ TrainStepEnd
    \/ TestStepBegin
    \/ TestStepBatch
    \/ TestStepEnd

SpecStep == InitStep /\ [][NextStep]_vars

\* ---------------------------------------------------------- properties
\* What the properties below read off a run of train().

\* the evaluation losses of the epochs run so far
EvalLosses == results["test_loss"]

\* the smallest of float('inf') and the first k losses of seq
RECURSIVE MinOfFirst(_, _)
MinOfFirst(seq, k) ==
    IF k = 0 THEN Inf
    ELSE LET m == MinOfFirst(seq, k - 1) IN IF seq[k] < m THEN seq[k] ELSE m

\* epoch i (1-based) is a strict improvement over the best loss before it
StrictImprovement(seq, i) == seq[i] < MinOfFirst(seq, i - 1)

\* the 1-based epoch of the last strict improvement, 0 when there is none
LastImprovement(seq) ==
    LET I == {i \in 1..Len(seq) : StrictImprovement(seq, i)} IN
      IF I = {} THEN 0 ELSE CHOOSE i \in I : \A j \in I : j <= i

\* the number of most recent epochs that are no strict improvement
RECURSIVE TrailingStale(_, _)
TrailingStale(seq, k) ==
    IF k = 0 \/ StrictImprovement(seq, k) THEN 0 ELSE 1 + TrailingStale(seq, k - 1)

StrictlyDecreasing(seq) == \A i \in 1..Len(seq) : StrictImprovement(seq, i)

\* the early-stop message has been printed (for 1-based epoch e)
StopPrinted(e) == \E i \in 1..Len(stdout) : stdout[i] = <<"Early stopping triggered", e>>
AnyStopPrinted == \E i \in 1..Len(stdout) : stdout[i][1] = "Early stopping triggered"

\* between epochs, or after the loop
BetweenEpochs == pc \in {"for", "return", "done"}

\* the epoch's early-stopping decision has been taken for every appended entry
Decided == pc # "early"

\* C1: early stopping is exact: once the last strict improvement (1-based
\* epoch b) is followed by `patience` epochs without strict improvement, the
\* loop has left, after exactly b + patience epochs, and what train() returns
\* has that many entries.
C1_StopsAtBestPlusPatience ==
    LET n == Len(EvalLosses)
        b == LastImprovement(EvalLosses)
    IN  /\ (Decided /\ b >= 1 /\ n - b >= patience) =>
              /\ pc \in {"return", "done"}
              /\ n = b + patience
              /\ it = n
        /\ (pc = "done" /\ b >= 1 /\ n - b >= patience) =>
              Len(returned[1]["test_loss"]) = b + patience

\* C1 witness: a best epoch that is not the first, then `patience` >= 1 stale
\* epochs, the loop stopped before epochs ran out
C1_Witness ==
    /\ pc = "done"
    /\ patience >= 1
    /\ LastImprovement(EvalLosses) >= 2
    /\ Len(EvalLosses) = LastImprovement(EvalLosses) + patience
    /\ Len(EvalLosses) < epochs

\* C2: the eight series always have one length; between epochs and at return
\* it is the number of epochs run; a step either leaves the series alone or
\* appends exactly one entry to each, and train() returns them.
C2_SeriesLengths ==
    /\ [](\A s \in Series : Len(results[s]) = Len(results["train_loss"]))
    /\ [](BetweenEpochs => Len(results["train_loss"]) = it)
    /\ [](pc = "done" => returned = <<results>>)
    /\ [][\/ results' = results
          \/ \A s \in Series :
                /\ Len(results'[s]) = Len(results[s]) + 1
                /\ SubSeq(results'[s], 1, Len(results[s])) = results[s]]_vars

\* C2 witness: train() returned after an early stop on its third epoch
C2_Witness ==
    /\ pc = "done"
    /\ StopPrinted(3)
    /\ \A s \in Series : Len(returned[1][s]) = 3

\* an epoch whose loss is strictly below best_loss resets the counter and
\* does not stop the loop
ImprovingEpochGoesOn ==
    (pc = "early" /\ cur.test_loss < best_loss) =>
        (patience_counter' = 0 /\ pc' = "log" /\ stdout' = stdout)

\* a run whose loss fell strictly on every epoch ran all epochs, silently
DecreasingRunsAll ==
    (pc = "done" /\ StrictlyDecreasing(EvalLosses)) =>
        (Len(EvalLosses) = epochs /\ ~AnyStopPrinted)

\* C3 as stated, for every patience: an improving epoch leaves the machine
\* improving, and a strictly decreasing loss runs all epochs with no message.
C3_AnyPatience ==
    /\ [][ImprovingEpochGoesOn]_vars
    /\ []DecreasingRunsAll

\* C3 amended: the same for every patience >= 1.
C3_PositivePatience ==
    /\ [][patience >= 1 => ImprovingEpochGoesOn]_vars
    /\ [](patience >= 1 => DecreasingRunsAll)

\* C3 witness: three strictly decreasing epochs with patience 1, all run
C3_Witness ==
    /\ pc = "done"
    /\ patience = 1
    /\ epochs = 3
    /\ Len(EvalLosses) = 3
    /\ StrictlyDecreasing(EvalLosses)
    /\ ~AnyStopPrinted

\* the two ways the loop ends
EndExhausted == it >= 1 /\ patience_counter >= patience
EndCompleted == it = epochs /\ ~EndExhausted

\* C4: train() terminates (it returns unless a call raised); it runs at most
\* `epochs` epochs and returns exhausted or completed; once exhausted, no
\* further epoch starts.
C4_Terminates ==
    /\ <>(pc = "done" \/ pc = "aborted")
    /\ [](pc = "aborted" => exc # "none")
    /\ [](it <= epochs)
    /\ [](pc = "done" => (EndExhausted \/ EndCompleted))
    /\ []((Decided /\ it = Len(EvalLosses) /\ EndExhausted) => pc \in {"return", "done"})
    /\ [][(pc = "return" \/ pc = "done") => pc' # "train_step"]_vars

\* C4 witness: both endings at once would be the last epoch exhausting
\* patience; here the loop ended exhausted on the last allowed epoch
C4_Witness ==
    /\ pc = "done"
    /\ EndExhausted
    /\ it = epochs
    /\ epochs = 3

\* the global_step of every scalar record of the sink, in order
ScalarSteps == [i \in 1..Len(SelectSeq(sink, LAMBDA r : r[1] = "add_scalars")) |->
                  SelectSeq(sink, LAMBDA r : r[1] = "add_scalars")[i][5]]

\* the 0-based epochs run so far that did not trigger early stopping
QuietEpochs == {e \in 0..(it - 1) : ~StopPrinted(e + 1)}

\* four records for each epoch of E, epochs in increasing order
RECURSIVE FourEach(_, _, _)
FourEach(e, hi, E) ==
    IF e > hi THEN << >>
    ELSE (IF e \in E THEN <<e, e, e, e>> ELSE << >>) \o FourEach(e + 1, hi, E)

\* C5: with a writer and an example input, the sink holds scalar records for
\* exactly the epochs that did not trigger early stopping, in increasing
\* order; the triggering epoch is in results and not in the sink.
C5_SinkSkipsTriggeringEpoch ==
    (BetweenEpochs /\ ShouldLog(writer, example_input)) =>
        /\ ScalarSteps = FourEach(0, it, QuietEpochs)
        /\ \A e \in 1..it : StopPrinted(e) =>
              /\ Len(results["test_loss"]) >= e
              /\ \A i \in 1..Len(ScalarSteps) : ScalarSteps[i] # e - 1

\* C5 witness: two epochs logged, the third triggered early stopping
C5_Witness ==
    /\ pc = "done"
    /\ ShouldLog(writer, example_input)
    /\ StopPrinted(3)
    /\ ScalarSteps = <<0, 0, 0, 0, 1, 1, 1, 1>>
    /\ Len(returned[1]["test_loss"]) = 3

\* C6: a test_step call leaves the parameters as they were, and in a run of
\* train() only a train_step call changes them.
C6_OnlyTrainStepUpdates ==
    [][/\ pc = "test_step" => params' = params
       /\ params' # params => pc = "train_step"]_vars

\* C6 witness: a second test_step has returned, parameters updated twice
C6_Witness ==
    /\ pc = "print"
    /\ epoch = 1
    /\ mode = "eval"
    /\ params = 2

\* the sum over the first k batches of the batch losses
RECURSIVE SumLoss(_, _)
SumLoss(dl, k) == IF k = 0 THEN 0 ELSE SumLoss(dl, k - 1) + dl[k].loss

\* number of examples of batch b whose rounded prediction equals the target
Hits(b) == Cardinality({i \in 1..Len(b.eq) : b.eq[i]})

\* the sum over the first k batches of the batch accuracies
RECURSIVE SumAccuracy(_, _)
SumAccuracy(dl, k) ==
    IF k = 0 THEN Zero ELSE RAdd(SumAccuracy(dl, k - 1), Frac(Hits(dl[k]), Len(dl[k].eq)))

\* C7: the loss and accuracy a step returns are the per-batch sums divided by
\* the number of batches.
C7_MeanPerBatch ==
    spc = "returned" =>
        /\ REq(ret[1].loss, Frac(SumLoss(dataloader, Len(dataloader)), Len(dataloader)))
        /\ REq(ret[1].acc, RDiv(SumAccuracy(dataloader, Len(dataloader)), Len(dataloader)))

\* hits and examples over the whole dataloader
RECURSIVE TotalHits(_, _)
TotalHits(dl, k) == IF k = 0 THEN 0 ELSE TotalHits(dl, k - 1) + Hits(dl[k])
RECURSIVE TotalExamples(_, _)
TotalExamples(dl, k) == IF k = 0 THEN 0 ELSE TotalExamples(dl, k - 1) + Len(dl[k].eq)

\* C7 witness: a step returned for batches of different sizes, where the mean
\* per batch is not the mean per example
C7_Witness ==
    /\ spc = "returned"
    /\ Len(dataloader) = 2
    /\ Len(dataloader[1].eq) # Len(dataloader[2].eq)
    /\ ~REq(ret[1].acc, Frac(TotalHits(dataloader, 2), TotalExamples(dataloader, 2)))

\* C8: a failing call ends the run at once: nothing is returned, and no step
\* follows.
C8_FailFast ==
    /\ [](exc # "none" => (pc = "aborted" /\ returned = NoResult))
    /\ [](pc = "aborted" => exc # "none")
    /\ [][pc # "aborted"]_vars

\* C8 witness: the writer failed in the second epoch, one epoch's entries lost
C8_Witness ==
    /\ pc = "aborted"
    /\ exc = "writer"
    /\ Len(results["test_loss"]) = 2
    /\ returned = NoResult

\* C9: best_loss starts at infinity and patience_counter at 0; once an epoch
\* is decided, patience_counter is the number of most recent epochs without a
\* strict improvement, it is 0 exactly when the last epoch set a new best, and
\* best_loss is the least loss of the epochs run.
C9_EarlyStoppingState ==
    LET n == Len(EvalLosses) IN
    /\ n = 0 => (best_loss = Inf /\ patience_counter = 0)
    /\ Decided =>
          /\ patience_counter = TrailingStale(EvalLosses, n)
          /\ best_loss = MinOfFirst(EvalLosses, n)
          /\ n >= 1 => (patience_counter = 0 <=> StrictImprovement(EvalLosses, n))

\* C9 witness: a stale epoch, then a new best resets the counter
C9_Witness ==
    /\ pc = "for"
    /\ Len(EvalLosses) = 3
    /\ ~StrictImprovement(EvalLosses, 2)
    /\ StrictImprovement(EvalLosses, 3)
    /\ patience_counter = 0
    /\ best_loss = EvalLosses[3]

\* the number of model-graph records in the sink
GraphCount == Len(SelectSeq(sink, LAMBDA r : r[1] = "add_graph"))

\* the sink's records other than the graph records: <<tag, step>> or <<"close">>
SinkOutline ==
    LET rest == SelectSeq(sink, LAMBDA r : r[1] # "add_graph") IN
      [i \in 1..Len(rest) |->
          IF rest[i][1] = "add_scalars" THEN <<rest[i][2], rest[i][5]>> ELSE <<"close">>]

\* the four scalar groups at step e and a close, for each epoch e of E in order
RECURSIVE GroupsThenClose(_, _, _)
GroupsThenClose(e, hi, E) ==
    IF e > hi THEN << >>
    ELSE (IF e \in E
          THEN << <<"Loss", e>>, <<"Accuracy", e>>, <<"Recall", e>>, <<"F1-Score", e>>,
                  <<"close">> >>
          ELSE << >>) \o GroupsThenClose(e + 1, hi, E)

\* the scalar groups and the close of every epoch that reached the logging step
LoggedEpochsProtocol ==
    (BetweenEpochs /\ ShouldLog(writer, example_input)) =>
        SinkOutline = GroupsThenClose(0, it, QuietEpochs)

\* C10 as stated: the sink gets, per logged epoch, the four scalar groups
\* Loss, Accuracy, Recall, F1-Score at the epoch index and then a close; the
\* model-graph record is emitted at most once in the whole run; with no writer
\* or no example input nothing is emitted or closed.
C10_GraphOnce ==
    /\ LoggedEpochsProtocol
    /\ ~ShouldLog(writer, example_input) => sink = << >>
    /\ GraphCount <= 1

====
